---- MODULE Spec2Model ----
(***************************************************************************)
(* Model of recipe-to-markdown: src/recipe2md.py (the click command line)  *)
(* and src/pure_recipe.py (the argparse command line).                     *)
(*                                                                         *)
(* A Python str is modelled as a sequence of one-character strings, so     *)
(* that lower-casing, title-casing, splitting and replacing are computed   *)
(* character by character as the interpreter computes them.                *)
(***************************************************************************)
EXTENDS Naturals, Sequences, FiniteSets

VARIABLES
    word,            \* camel_case_splitter: the argument
    split_out,       \* camel_case_splitter: the value returned, NoValue before the call
    prog,            \* "recipe2md" | "pure_recipe": which script runs
    op,              \* "view" | "save": the command
    pc,              \* position of the run inside the command
    name,            \* --name (None when absent; pure_recipe has no such option)
    category,        \* --category
    extras,          \* --extra, in the order given
    translate,       \* --translate
    prompt_save,     \* view's prompt_save parameter
    page,            \* what the recipe page holds: the record a successful scrape yields
    scraper,         \* the third value returned by generate_markdown
    md_content,      \* the first value returned by generate_markdown
    image_filename,  \* the second value returned by generate_markdown
    image_data,      \* the bytes read from the image response
    disk,            \* the files written under DIRECTORY by this run, in write order
    rendered,        \* the documents print_markdown has displayed, in order
    log,             \* the lines handed to logger.error / logger.info, in order
    exc,             \* the exception raised in this run ("none" when there is none)
    raised_at,       \* the position at which it was raised ("none" when there is none)
    returned         \* the value returned by the persist function (NoValue before)

vars == <<word, split_out, prog, op, pc, name, category, extras, translate,
          prompt_save, page, scraper, md_content, image_filename, image_data,
          disk, rendered, log, exc, raised_at, returned>>

\* Python's None, and "no value yet": neither is a text (a text holds
\* one-character strings only)
None == <<"None">>
NoValue == <<"NoValue">>

(***************************************************************************)
(* Bounds of the model.                                                    *)
(***************************************************************************)
MaxWordLen == 3
MaxTitleLen == 2
MaxItems == 2

(***************************************************************************)
(* Characters.                                                             *)
(***************************************************************************)
Lower == <<"a","b","c","d","e","f","g","h","i","j","k","l","m",
           "n","o","p","q","r","s","t","u","v","w","x","y","z">>
Upper == <<"A","B","C","D","E","F","G","H","I","J","K","L","M",
           "N","O","P","Q","R","S","T","U","V","W","X","Y","Z">>

IsLower(c) == \E i \in 1..26 : Lower[i] = c
IsUpper(c) == \E i \in 1..26 : Upper[i] = c
IsCased(c) == IsLower(c) \/ IsUpper(c)
ToLower(c) == IF IsUpper(c) THEN Lower[CHOOSE i \in 1..26 : Upper[i] = c] ELSE c
ToUpper(c) == IF IsLower(c) THEN Upper[CHOOSE i \in 1..26 : Lower[i] = c] ELSE c
\* str.isspace on one character
IsSpace(c) == c \in {" ", "\t", "\n"}

(***************************************************************************)
(* The str methods the scripts call.                                       *)
(***************************************************************************)
\* str.lower()
str_lower(s) == [i \in 1..Len(s) |-> ToLower(s[i])]

\* str.capitalize(): first character upper-cased, every other one lower-cased
str_capitalize(s) == [i \in 1..Len(s) |-> IF i = 1 THEN ToUpper(s[i]) ELSE ToLower(s[i])]

\* str.title(): a cased character is upper-cased when the one before it is
\* uncased (or there is none) and lower-cased otherwise
str_title(s) ==
    [i \in 1..Len(s) |->
        IF ~IsCased(s[i]) THEN s[i]
        ELSE IF i > 1 /\ IsCased(s[i-1]) THEN ToLower(s[i]) ELSE ToUpper(s[i])]

StartsWithAt(s, i, old) ==
    /\ i + Len(old) - 1 <= Len(s)
    /\ \A k \in 1..Len(old) : s[i + k - 1] = old[k]

\* str.replace(old, new) for a non-empty old: leftmost, non-overlapping
RECURSIVE ReplaceFrom(_, _, _, _)
ReplaceFrom(s, i, old, new) ==
    IF i > Len(s) THEN <<>>
    ELSE IF StartsWithAt(s, i, old) THEN new \o ReplaceFrom(s, i + Len(old), old, new)
    ELSE <<s[i]>> \o ReplaceFrom(s, i + 1, old, new)
str_replace(s, old, new) == ReplaceFrom(s, 1, old, new)

\* sep.join(parts)
RECURSIVE str_join(_, _)
str_join(sep, parts) ==
    IF parts = <<>> THEN <<>>
    ELSE IF Len(parts) = 1 THEN parts[1]
    ELSE parts[1] \o sep \o str_join(sep, Tail(parts))

\* str.split(sep) for a one-character sep: every piece, empty ones included
RECURSIVE SplitOnFrom(_, _, _, _)
SplitOnFrom(s, i, sep, cur) ==
    IF i > Len(s) THEN <<cur>>
    ELSE IF s[i] = sep THEN <<cur>> \o SplitOnFrom(s, i + 1, sep, <<>>)
    ELSE SplitOnFrom(s, i + 1, sep, Append(cur, s[i]))
str_split_on(s, sep) == SplitOnFrom(s, 1, sep, <<>>)

\* str.split() with no argument: pieces between runs of whitespace, none empty
RECURSIVE SplitWsFrom(_, _, _)
SplitWsFrom(s, i, cur) ==
    IF i > Len(s) THEN (IF cur = <<>> THEN <<>> ELSE <<cur>>)
    ELSE IF IsSpace(s[i])
         THEN (IF cur = <<>> THEN <<>> ELSE <<cur>>) \o SplitWsFrom(s, i + 1, <<>>)
    ELSE SplitWsFrom(s, i + 1, Append(cur, s[i]))
str_split(s) == SplitWsFrom(s, 1, <<>>)

(***************************************************************************)
(* camel_case_splitter (identical in both scripts).                        *)
(***************************************************************************)
\* end of the longest run of characters satisfying [A-Z] that starts at i
RECURSIVE UpperRunEnd(_, _)
UpperRunEnd(s, i) == IF i < Len(s) /\ IsUpper(s[i+1]) THEN UpperRunEnd(s, i + 1) ELSE i
RECURSIVE LowerRunEnd(_, _)
LowerRunEnd(s, i) == IF i < Len(s) /\ IsLower(s[i+1]) THEN LowerRunEnd(s, i + 1) ELSE i

\* re.sub("([A-Z]+)", r" \1", s)
RECURSIVE SubUpperRun(_, _)
SubUpperRun(s, i) ==
    IF i > Len(s) THEN <<>>
    ELSE IF IsUpper(s[i])
         THEN LET j == UpperRunEnd(s, i)
              IN  <<" ">> \o SubSeq(s, i, j) \o SubUpperRun(s, j + 1)
    ELSE <<s[i]>> \o SubUpperRun(s, i + 1)

\* re.sub("([A-Z][a-z]+)", r" \1", s)
RECURSIVE SubUpperLower(_, _)
SubUpperLower(s, i) ==
    IF i > Len(s) THEN <<>>
    ELSE IF IsUpper(s[i]) /\ i < Len(s) /\ IsLower(s[i+1])
         THEN LET j == LowerRunEnd(s, i + 1)
              IN  <<" ">> \o SubSeq(s, i, j) \o SubUpperLower(s, j + 1)
    ELSE <<s[i]>> \o SubUpperLower(s, i + 1)

\* the variant in which only the first character is touched
camel_case_splitter_keepcase(w) ==
    LET joined == str_join(<<" ">>, str_split(SubUpperLower(SubUpperRun(w, 1), 1)))
    IN  [i \in 1..Len(joined) |-> IF i = 1 THEN ToUpper(joined[i]) ELSE joined[i]]

camel_case_splitter(w) ==
    LET split == str_split(SubUpperLower(SubUpperRun(w, 1), 1))
    IN  str_capitalize(str_join(<<" ">>, split))

(***************************************************************************)
(* camel_case_splitter as a call: SpecSplit draws the word and applies it. *)
(***************************************************************************)
SplitAlphabet == {"a", "b", "A", "B", "1"}
W_proteinContent == <<"p","r","o","t","e","i","n","C","o","n","t","e","n","t">>
W_fatContentFDA == <<"f","a","t","C","o","n","t","e","n","t","F","D","A">>
W_ABCDef == <<"A","B","C","D","e","f">>
SplitWords ==
    UNION {[1..k -> SplitAlphabet] : k \in 0..MaxWordLen}
        \cup {W_proteinContent, W_fatContentFDA, W_ABCDef}

(***************************************************************************)
(* Literal pieces of the documents.                                        *)
(***************************************************************************)
NL == <<"\n">>
S_rule == <<"-","-","-">>
S_title == <<"t","i","t","l","e",":"," ">>
S_category == <<"c","a","t","e","g","o","r","y",":"," ">>
S_XXX == <<"X","X","X">>
S_source == <<"s","o","u","r","c","e",":"," ">>
S_image == <<"i","m","a","g","e",":"," ">>
S_size == <<"s","i","z","e",":"," ">>
S_time == <<"t","i","m","e",":"," ">>
S_mins == <<" ","m","i","n","s">>
S_nutrition == <<"n","u","t","r","i","t","i","o","n",":">>
S_content == <<" ","c","o","n","t","e","n","t">>
S_extra_x == <<":"," ","x">>
S_bullet == <<"*"," ">>
S_quote == <<">"," ">>
S_md == <<".","m","d">>
DIRECTORY == <<"l","o","c","a","l","/">>

\* str(n) of a non-negative int
Digits == <<"0","1","2","3","4","5","6","7","8","9">>
RECURSIVE int_str(_)
int_str(n) == IF n < 10 THEN <<Digits[n + 1]>> ELSE int_str(n \div 10) \o <<Digits[(n % 10) + 1]>>

Last(seq) == seq[Len(seq)]

(***************************************************************************)
(* Collaborators outside the repository.                                   *)
(***************************************************************************)
\* the URL given on the command line
recipe_url == <<"h","t","t","p",":","/","/","r">>

\* GoogleTranslator(source="auto", target="en").translate: a text-to-text map
\* that is not the identity (here every "a" becomes "e")
Translate(t) == [i \in 1..Len(t) |-> IF t[i] = "a" THEN "e" ELSE t[i]]

\* the objects generate_markdown hands back when scraping failed
EmptyDict == [kind |-> "{}"]
AbstractScraperObj == [kind |-> "AbstractScraper()"]
NoScraper == [kind |-> "NoValue"]
\* title(), image() of such an object raise
IsSentinel(sc) == sc.kind # "scraper"

(***************************************************************************)
(* Title and file-name formatting.                                         *)
(***************************************************************************)
\* recipe2md.format_title applied to a str: str.title(), then " " -> "-"
format_title(title) == str_replace(str_title(title), <<" ">>, <<"-">>)

\* pure_recipe.format_title applied to the scraper: scraper.title(), then " " -> "-"
format_title_scraper(sc) == str_replace(sc.title, <<" ">>, <<"-">>)

\* pure_recipe.format_file_name: lower-case, every whitespace character -> "-"
format_file_name(recipe_title) ==
    LET s == str_lower(recipe_title)
    IN  [i \in 1..Len(s) |-> IF IsSpace(s[i]) THEN "-" ELSE s[i]]

\* scraper.image().split(".")[-1]
image_file_extension(image) == Last(str_split_on(image, "."))

(***************************************************************************)
(* The document text.                                                      *)
(***************************************************************************)
RECURSIVE ConcatAll(_)
ConcatAll(parts) == IF parts = <<>> THEN <<>> ELSE parts[1] \o ConcatAll(Tail(parts))

\* camel_case_splitter(nutrient).replace(' content', '')
nutrient_label(nutrient) == str_replace(camel_case_splitter(nutrient), S_content, <<>>)

\* for ingredient in ingredients: markdown_content += f"* {ingredient}\n"
ingredient_lines_dropfirst(ingredients) ==
    ConcatAll([i \in 2..Len(ingredients) |-> S_bullet \o ingredients[i] \o NL])

ingredient_lines(ingredients) ==
    ConcatAll([i \in 1..Len(ingredients) |-> S_bullet \o ingredients[i] \o NL])

\* recipe2md: "\n\n---\n\n".join([f"> {instruction}" for instruction in instructions])
instruction_blocks(instructions) ==
    str_join(NL \o NL \o S_rule \o NL \o NL,
             [i \in 1..Len(instructions) |-> S_quote \o instructions[i]])

\* pure_recipe: for each instruction, "\n---\n" and then f"> {instruction}"
instruction_blocks_pure(instructions) ==
    ConcatAll([i \in 1..Len(instructions) |->
                  NL \o S_rule \o NL \o S_quote \o instructions[i]])

\* recipe2md: the dedented header, the nutrition block, the extras, the delimiter
front_matter(title, cat, image_fn, sc, extra) ==
    S_rule \o NL
    \o S_title \o str_capitalize(title) \o NL
    \o S_category \o str_capitalize(cat) \o NL
    \o S_source \o recipe_url \o NL
    \o S_image \o image_fn \o NL
    \o S_size \o sc.yields \o NL
    \o S_time \o int_str(sc.total_time) \o S_mins \o NL
    \o (IF Len(sc.nutrients) > 0
        THEN S_nutrition \o NL
             \o ConcatAll([i \in 1..Len(sc.nutrients) |->
                    <<"\t", "-", " ">> \o nutrient_label(sc.nutrients[i][1])
                    \o <<" ">> \o sc.nutrients[i][2] \o NL])
        ELSE <<>>)
    \o ConcatAll([i \in 1..Len(extra) |-> extra[i] \o S_extra_x \o NL])
    \o S_rule \o NL \o NL

\* pure_recipe: the dedented header (it ends without a line break), the
\* nutrient lines, the delimiter
front_matter_pure(title, image_fn, sc) ==
    S_rule \o NL
    \o S_title \o str_replace(title, <<"-">>, <<" ">>) \o NL
    \o S_category \o S_XXX \o NL
    \o S_source \o recipe_url \o NL
    \o S_image \o image_fn \o NL
    \o S_size \o sc.yields \o NL
    \o S_time \o int_str(sc.total_time) \o NL
    \o S_nutrition
    \o ConcatAll([i \in 1..Len(sc.nutrients) |->
           <<"\t">> \o nutrient_label(sc.nutrients[i][1])
           \o <<" ">> \o sc.nutrients[i][2] \o NL])
    \o S_rule \o NL

(***************************************************************************)
(* generate_markdown.  env says what the collaborators do in this call:    *)
(* env.scrape_ok (the page could be fetched and parsed), env.translate_ok  *)
(* (the translator answered) and env.ctor_ok.  The last one is the outcome *)
(* of AbstractScraper() at recipe2md.py:108: the call passes no argument   *)
(* to a constructor that lives in recipe_scrapers, outside this            *)
(* repository, and which declares required parameters, so evaluating it    *)
(* raises TypeError; both outcomes are kept, since the library is not part *)
(* of the sources.  The value is [raised, md, image, scraper, logged]:     *)
(* raised is "none" when the function returns.                             *)
(***************************************************************************)
Returns(md, image, sc, logged) ==
    [raised |-> "none", md |-> md, image |-> image, scraper |-> sc, logged |-> logged]
Raises(kind, logged) ==
    [raised |-> kind, md |-> NoValue, image |-> NoValue, scraper |-> NoScraper,
     logged |-> logged]

LogScrapeError == [level |-> "error", msg |-> "Could not scrape recipe"]

\* recipe2md.generate_markdown: title = scraper.title() if name is None else name
effective_title_scraped_only(nm, sc) == sc.title

effective_title(nm, sc) == IF nm = None THEN sc.title ELSE nm

\* recipe2md.generate_markdown
generate_markdown(nm, cat, extra, tr, pg, env) ==
    IF ~env.scrape_ok
    THEN \* scrape_recipe logged the error and returned None
         IF env.ctor_ok
         THEN Returns(<<>>, <<>>, AbstractScraperObj, <<LogScrapeError>>)
         ELSE Raises("TypeError", <<LogScrapeError>>)
    ELSE IF pg.image = None
    THEN Raises("AttributeError", <<>>)
    ELSE LET title == effective_title(nm, pg)
             image_fn == format_title(title) \o <<".">> \o image_file_extension(pg.image)
         IN  IF tr /\ ~env.translate_ok
             THEN Raises("TranslationError", <<>>)
             ELSE LET title2 == IF tr THEN Translate(title) ELSE title
                      ingredients == IF tr
                                     THEN [i \in 1..Len(pg.ingredients) |->
                                              Translate(pg.ingredients[i])]
                                     ELSE pg.ingredients
                      instructions == IF tr
                                      THEN [i \in 1..Len(pg.instructions) |->
                                               Translate(pg.instructions[i])]
                                      ELSE pg.instructions
                  IN  Returns(front_matter(title2, cat, image_fn, pg, extra)
                                  \o ingredient_lines(ingredients)
                                  \o NL
                                  \o instruction_blocks(instructions),
                              image_fn, pg, <<>>)

\* pure_recipe.generate_markdown
generate_markdown_pure(pg, env) ==
    IF ~env.scrape_ok
    THEN Returns(<<>>, <<>>, EmptyDict, <<LogScrapeError>>)
    ELSE IF pg.image = None
    THEN Raises("AttributeError", <<>>)
    ELSE LET title == format_title_scraper(pg)
             image_fn == format_file_name(title) \o <<".">> \o image_file_extension(pg.image)
         IN  Returns(front_matter_pure(title, image_fn, pg)
                         \o ingredient_lines(pg.ingredients)
                         \o instruction_blocks_pure(pg.instructions),
                     image_fn, pg, <<>>)

(***************************************************************************)
(* Persisting: save_md_to_file (recipe2md) and save_recipe_to_markdown     *)
(* (pure_recipe).                                                          *)
(***************************************************************************)
\* whether computing the title of the document file raises
save_title_raises(pr, nm, sc) ==
    IF pr = "recipe2md" THEN nm = None /\ IsSentinel(sc) ELSE IsSentinel(sc)

\* the title of the document file
save_title(pr, nm, sc) ==
    IF pr = "recipe2md"
    THEN (IF nm = None THEN format_title(sc.title) ELSE format_title(nm))
    ELSE format_file_name(format_title_scraper(sc))

recipe_file(pr, nm, sc) == DIRECTORY \o save_title(pr, nm, sc) \o S_md
image_path(image_fn) == DIRECTORY \o image_fn

\* the order of the statements of the persist function, written the other way round
persist_next_doc_first(step) ==
    CASE step = "persist_fetch" -> "persist_write_doc"
      [] step = "persist_write_doc" -> "persist_write_image"
      [] step = "persist_write_image" -> "persist_return"

\* the order of the statements of the persist function: the statement after step
persist_next(step) ==
    CASE step = "persist_fetch" -> "persist_write_image"
      [] step = "persist_write_image" -> "persist_write_doc"
      [] step = "persist_write_doc" -> "persist_return"

(***************************************************************************)
(* Where an exception raised at a position of the run ends up.             *)
(***************************************************************************)
InPersist(p) == p \in {"persist_fetch", "persist_write_image", "persist_write_doc",
                       "persist_return"}
IsOSError(kind) == kind \in {"OSError", "ConnectionError"}

\* [pc, logged]: the position after the handler ran, and what it logged
catch(pr, o, at, kind) ==
    IF o = "view"
    THEN IF InPersist(at)
         THEN [pc |-> "done",
               logged |-> <<[level |-> "error", msg |-> "Error saving the recipe"]>>]
         ELSE IF IsOSError(kind)
         THEN [pc |-> "done", logged |-> <<[level |-> "error", msg |-> "I/O error"]>>]
         ELSE [pc |-> "done", logged |-> <<[level |-> "error", msg |-> "An error occurred"]>>]
    ELSE IF pr = "pure_recipe"
    THEN [pc |-> "done", logged |-> <<[level |-> "error", msg |-> "An error occurred"]>>]
    ELSE [pc |-> "crashed", logged |-> <<>>]

Raise(at, kind) ==
    LET h == catch(prog, op, at, kind)
    IN  /\ pc' = h.pc
        /\ log' = log \o h.logged
        /\ exc' = kind
        /\ raised_at' = at

(***************************************************************************)
(* The steps of a run.                                                     *)
(***************************************************************************)
Envs == [scrape_ok : BOOLEAN, ctor_ok : BOOLEAN, translate_ok : BOOLEAN]

GenerateMarkdownCall ==
    /\ pc = "start"
    /\ \E env \in Envs :
         LET r == IF prog = "recipe2md"
                  THEN generate_markdown(name, category, extras, translate, page, env)
                  ELSE generate_markdown_pure(page, env)
         IN  IF r.raised = "none"
             THEN /\ md_content' = r.md
                  /\ image_filename' = r.image
                  /\ scraper' = r.scraper
                  /\ log' = log \o r.logged
                  /\ pc' = IF op = "view" THEN "print_markdown" ELSE "persist_fetch"
                  /\ UNCHANGED <<exc, raised_at>>
             ELSE /\ LET h == catch(prog, op, "start", r.raised)
                     IN  /\ pc' = h.pc
                         /\ log' = log \o r.logged \o h.logged
                  /\ exc' = r.raised
                  /\ raised_at' = "start"
                  /\ UNCHANGED <<md_content, image_filename, scraper>>
    /\ UNCHANGED <<word, split_out, prog, op, name, category, extras, translate,
                   prompt_save, page, image_data, disk, rendered, returned>>

PrintMarkdown ==
    /\ pc = "print_markdown"
    /\ rendered' = Append(rendered, md_content)
    /\ pc' = IF prompt_save THEN "prompt" ELSE "done"
    /\ UNCHANGED <<word, split_out, prog, op, name, category, extras, translate,
                   prompt_save, page, scraper, md_content, image_filename, image_data,
                   disk, log, exc, raised_at, returned>>

Prompt ==
    /\ pc = "prompt"
    /\ \E answer \in {"Save this recipe", "Quit"} :
         pc' = IF answer = "Save this recipe" THEN "persist_fetch" ELSE "done"
    /\ UNCHANGED <<word, split_out, prog, op, name, category, extras, translate,
                   prompt_save, page, scraper, md_content, image_filename, image_data,
                   disk, rendered, log, exc, raised_at, returned>>

\* the title, the two paths, scraper.image() and requests.get(...).content
PersistFetch ==
    /\ pc = "persist_fetch"
    /\ \/ /\ save_title_raises(prog, name, scraper)
          /\ Raise("persist_fetch", "AttributeError")
          /\ UNCHANGED image_data
       \/ /\ ~save_title_raises(prog, name, scraper)
          /\ IsSentinel(scraper)
          /\ Raise("persist_fetch", "AttributeError")
          /\ UNCHANGED image_data
       \/ /\ ~save_title_raises(prog, name, scraper)
          /\ ~IsSentinel(scraper)
          /\ \E response \in {"raises", "200", "non200"} :
               IF response = "raises"
               THEN Raise("persist_fetch", "ConnectionError") /\ UNCHANGED image_data
               ELSE /\ image_data' = IF response = "200" THEN "image_bytes" ELSE "error_body"
                    /\ pc' = persist_next("persist_fetch")
                    /\ UNCHANGED <<log, exc, raised_at>>
    /\ UNCHANGED <<word, split_out, prog, op, name, category, extras, translate,
                   prompt_save, page, scraper, md_content, image_filename,
                   disk, rendered, returned>>

\* with open(image_path, "wb") as image_file: image_file.write(image_data)
PersistWriteImage ==
    /\ pc = "persist_write_image"
    /\ \E ok \in BOOLEAN :
         IF ok
         THEN /\ disk' = Append(disk, [kind |-> "image", path |-> image_path(image_filename),
                                       data |-> image_data])
              /\ pc' = persist_next("persist_write_image")
              /\ UNCHANGED <<log, exc, raised_at>>
         ELSE Raise("persist_write_image", "OSError") /\ UNCHANGED disk
    /\ UNCHANGED <<word, split_out, prog, op, name, category, extras, translate,
                   prompt_save, page, scraper, md_content, image_filename, image_data,
                   rendered, returned>>

\* with open(recipe_file, "w+") as text_file: text_file.write(markdown_content)
PersistWriteDoc ==
    /\ pc = "persist_write_doc"
    /\ \E ok \in BOOLEAN :
         IF ok
         THEN /\ disk' = Append(disk, [kind |-> "doc",
                                       path |-> recipe_file(prog, name, scraper),
                                       data |-> md_content])
              /\ pc' = persist_next("persist_write_doc")
              /\ UNCHANGED <<log, exc, raised_at>>
         ELSE Raise("persist_write_doc", "OSError") /\ UNCHANGED disk
    /\ UNCHANGED <<word, split_out, prog, op, name, category, extras, translate,
                   prompt_save, page, scraper, md_content, image_filename, image_data,
                   rendered, returned>>

\* return recipe_file, image_file; view then logs that the recipe was saved
PersistReturn ==
    /\ pc = "persist_return"
    /\ returned' = <<recipe_file(prog, name, scraper), image_path(image_filename)>>
    /\ log' = IF op = "view"
              THEN Append(log, [level |-> "info", msg |-> "Recipe saved successfully."])
              ELSE log
    /\ pc' = "done"
    /\ UNCHANGED <<word, split_out, prog, op, name, category, extras, translate,
                   prompt_save, page, scraper, md_content, image_filename, image_data,
                   disk, rendered, exc, raised_at>>

CamelCaseSplitterCall ==
    /\ pc = "split_call"
    /\ split_out' = camel_case_splitter(word)
    /\ pc' = "split_done"
    /\ UNCHANGED <<word, prog, op, name, category, extras, translate,
                   prompt_save, page, scraper, md_content, image_filename, image_data,
                   disk, rendered, log, exc, raised_at, returned>>

(***************************************************************************)
(* Inputs.                                                                 *)
(***************************************************************************)
SeqsUpTo(S, lo, hi) == UNION {[1..k -> S] : k \in lo..hi}

T_Pancakes == <<"P","a","n","c","a","k","e","s">>
T_ChocolateCake == <<"C","h","o","c","o","l","a","t","e"," ","C","a","k","e">>
T_Dotted == <<"D","r","."," ","B">>
T_TabTitle == <<"a","\t","B">>
U_jpg == <<"h","t","t","p",":","/","/","x","/","i","m","g",".","j","p","g">>
U_nodot == <<"h","t","t","p",":","/","/","x","/","i","m","g">>
U_twodots == <<"h","t","t","p",":","/","/","x","/","a",".","b",".","p","n","g">>
I_flour == <<"1"," ","c","u","p"," ","f","l","o","u","r">>
I_eggs == <<"2"," ","e","g","g","s">>
I_mix == <<"M","i","x",".">>
I_cook == <<"C","o","o","k",".">>
X_spicy == <<"s","p","i","c","y">>
X_veggie == <<"v","e","g","g","i","e">>
C_dessert == <<"d","e","s","s","e","r","t">>
Y_servings == <<"4"," ","s","e","r","v","i","n","g","s">>
Q_5g == <<"5","g">>

MkPage(title, image, ingredients, instructions, nutrients) ==
    [kind |-> "scraper", title |-> title, image |-> image,
     ingredients |-> ingredients, instructions |-> instructions,
     nutrients |-> nutrients, yields |-> Y_servings, total_time |-> 15]

\* the pages of Spec: the example recipe of the specification and its variants
RunPages ==
    {MkPage(t, u, <<I_flour, I_eggs>>, <<I_mix, I_cook>>, <<>>) :
        t \in {T_Pancakes, T_ChocolateCake}, u \in {U_jpg, U_nodot, None}}
RunNames == {None, <<"m","y"," ","c","a","k","e">>}

\* the pages of SpecDoc: every ingredient and instruction sequence up to MaxItems
ItemTexts == {<<"*", " ", "a">>, <<">", " ", "a">>}
DocPages ==
    {MkPage(T_Pancakes, U_jpg, ing, ins, nut) :
        ing \in SeqsUpTo(ItemTexts, 0, MaxItems),
        ins \in SeqsUpTo(ItemTexts, 0, MaxItems),
        nut \in {<<>>, <<<<W_proteinContent, Q_5g>>, <<W_fatContentFDA, Q_5g>>>>}}

\* the pages and names of SpecNames: every title and name up to MaxTitleLen
TitleAlphabet == {"a", "B", " "}
NameTitles ==
    SeqsUpTo(TitleAlphabet, 1, MaxTitleLen) \cup {T_Pancakes, T_TabTitle, T_Dotted}
NamePages ==
    {MkPage(t, u, <<I_flour>>, <<I_mix>>, <<>>) : t \in NameTitles, u \in {U_jpg, U_twodots}}
NameNames == {None} \cup SeqsUpTo(TitleAlphabet, 0, MaxTitleLen)

RunStart ==
    /\ word = <<>>
    /\ split_out = NoValue
    /\ pc = "start"
    /\ scraper = NoScraper
    /\ md_content = NoValue
    /\ image_filename = NoValue
    /\ image_data = "none"
    /\ disk = <<>>
    /\ rendered = <<>>
    /\ log = <<>>
    /\ exc = "none"
    /\ raised_at = "none"
    /\ returned = NoValue

\* the command line: recipe2md takes every option (view has prompt_save as
\* well), pure_recipe takes the operation and the URL only
CommandLine(ops, names, cats, extraSets) ==
    /\ prog \in {"recipe2md", "pure_recipe"}
    /\ op \in ops
    /\ name \in (IF prog = "recipe2md" THEN names ELSE {None})
    /\ category \in (IF prog = "recipe2md" THEN cats ELSE {<<>>})
    /\ extras \in (IF prog = "recipe2md" THEN extraSets ELSE {<<>>})
    /\ translate \in (IF prog = "recipe2md" THEN BOOLEAN ELSE {FALSE})
    /\ prompt_save \in (IF prog = "recipe2md" /\ op = "view" THEN BOOLEAN ELSE {TRUE})

Init ==
    /\ RunStart
    /\ page \in RunPages
    /\ CommandLine({"view", "save"}, RunNames, {<<>>}, {<<>>})

InitDoc ==
    /\ RunStart
    /\ page \in DocPages
    /\ CommandLine({"save"}, {None}, {<<>>, C_dessert}, {<<>>, <<X_spicy, X_veggie>>})
    /\ (category = <<>>) = (extras = <<>>)

InitNames ==
    /\ RunStart
    /\ page \in NamePages
    /\ CommandLine({"save"}, NameNames, {<<>>}, {<<>>})

\* pure_recipe.py alone: python pure_recipe.py view|save URL
InitPure ==
    /\ RunStart
    /\ page \in RunPages \cup NamePages
    /\ CommandLine({"view", "save"}, {None}, {<<>>}, {<<>>})
    /\ prog = "pure_recipe"

InitSplit ==
    /\ word \in SplitWords
    /\ split_out = NoValue
    /\ pc = "split_call"
    /\ prog = "none"
    /\ op = "none"
    /\ name = None
    /\ category = <<>>
    /\ extras = <<>>
    /\ translate = FALSE
    /\ prompt_save = FALSE
    /\ page = NoScraper
    /\ scraper = NoScraper
    /\ md_content = NoValue
    /\ image_filename = NoValue
    /\ image_data = "none"
    /\ disk = <<>>
    /\ rendered = <<>>
    /\ log = <<>>
    /\ exc = "none"
    /\ raised_at = "none"
    /\ returned = NoValue

Next ==
    \/ GenerateMarkdownCall
    \/ PrintMarkdown
    \/ Prompt
    \/ PersistFetch
    \/ PersistWriteImage
    \/ PersistWriteDoc
    \/ PersistReturn

NextDoc == GenerateMarkdownCall

NextSave ==
    \/ GenerateMarkdownCall
    \/ PersistFetch
    \/ PersistWriteImage
    \/ PersistWriteDoc
    \/ PersistReturn

NextSplit == CamelCaseSplitterCall

\* one run of view or save
Spec == Init /\ [][Next]_vars
\* one run of pure_recipe.py
SpecPure == InitPure /\ [][Next]_vars
\* generate_markdown over every ingredient and instruction sequence
SpecDoc == InitDoc /\ [][NextDoc]_vars
\* save over every title and name
SpecNames == InitNames /\ [][NextSave]_vars
\* one call of camel_case_splitter
SpecSplit == InitSplit /\ [][NextSplit]_vars

(***************************************************************************)
(* Vocabulary of the properties.                                           *)
(***************************************************************************)
HasDot(t) == \E i \in 1..Len(t) : t[i] = "."
LastDot(t) == CHOOSE i \in 1..Len(t) : t[i] = "." /\ \A j \in (i+1)..Len(t) : t[j] # "."
AfterLastDot(t) == SubSeq(t, LastDot(t) + 1, Len(t))
BeforeLastDot(t) == SubSeq(t, 1, LastDot(t) - 1)
FileName(path) == SubSeq(path, Len(DIRECTORY) + 1, Len(path))
StartsWith(t, prefix) == StartsWithAt(t, 1, prefix)
DropPrefix(t, prefix) == SubSeq(t, Len(prefix) + 1, Len(t))
\* the lines of a text: the pieces between its line breaks
LineStarts(t) == {1} \cup {i + 1 : i \in {j \in 1..Len(t) : t[j] = "\n"}}
LineEnd(t, start) ==
    IF \E i \in start..Len(t) : t[i] = "\n"
    THEN (CHOOSE i \in start..Len(t) :
              t[i] = "\n" /\ \A j \in start..(i - 1) : t[j] # "\n") - 1
    ELSE Len(t)
Lines(t) ==
    [k \in 1..Cardinality(LineStarts(t)) |->
        LET start == CHOOSE x \in LineStarts(t) :
                         Cardinality({y \in LineStarts(t) : y < x}) = k - 1
        IN  SubSeq(t, start, LineEnd(t, start))]
LetterCase(t) == SelectSeq(t, LAMBDA c : ~IsSpace(c))

\* generate_markdown returned with the scraped record
Generated == scraper.kind = "scraper"
\* scraping the page failed in this run
ExtractionFailed == \E i \in 1..Len(log) : log[i] = LogScrapeError
\* the title the claims call effective
EffectiveTitle == IF name = None THEN page.title ELSE name
\* lower-cased, every whitespace character replaced by a hyphen
Slug(t) == [i \in 1..Len(t) |-> IF IsSpace(t[i]) THEN "-" ELSE ToLower(t[i])]
EffectiveLines(items) ==
    IF translate THEN [i \in 1..Len(items) |-> Translate(items[i])] ELSE items
LinesWith(prefix) ==
    LET ls == Lines(md_content)
        sel == SelectSeq(ls, LAMBDA l : StartsWith(l, prefix))
    IN  [i \in 1..Len(sel) |-> DropPrefix(sel[i], prefix)]
LineNumbersWith(prefix) ==
    {i \in 1..Len(Lines(md_content)) : StartsWith(Lines(md_content)[i], prefix)}

(***************************************************************************)
(* C1 (as stated): whenever generate_markdown returns for a page whose     *)
(* image URL has a ".", the image filename is the effective title          *)
(* lower-cased with whitespace replaced by hyphens, then ".", then the     *)
(* text after the last "." of the URL.  recipe2md title-cases the title    *)
(* instead of lower-casing it, so this is violated.                        *)
(***************************************************************************)
C1_ImageFilenameIsSlug ==
    (Generated /\ HasDot(page.image)) =>
        image_filename = Slug(EffectiveTitle) \o <<".">> \o AfterLastDot(page.image)

(***************************************************************************)
(* C2: the document generate_markdown returns holds exactly one "* " line  *)
(* per ingredient and one "> " line per instruction, each sequence in the  *)
(* order of the record, and every bullet line comes before every quote     *)
(* line.                                                                   *)
(***************************************************************************)
C2_BulletsAndQuotes ==
    Generated =>
        /\ LinesWith(S_bullet) = EffectiveLines(page.ingredients)
        /\ LinesWith(S_quote) = EffectiveLines(page.instructions)
        /\ \A i \in LineNumbersWith(S_bullet) : \A j \in LineNumbersWith(S_quote) : i < j

C2_Witness ==
    /\ Generated
    /\ translate
    /\ Len(page.ingredients) = 2
    /\ Len(page.instructions) = 2
    /\ page.ingredients[1] # page.ingredients[2]
    /\ Len(page.nutrients) > 0

(***************************************************************************)
(* C3 (as stated): camel_case_splitter changes the case of the first       *)
(* character only, so "fatContentFDA" gives "Fat content FDA" and "ABCDef" *)
(* gives "ABC def".  str.capitalize() lower-cases the rest, so this is     *)
(* violated.                                                               *)
(***************************************************************************)
C3_AcronymCasePreserved ==
    pc = "split_done" =>
        /\ LetterCase(split_out) =
               [i \in 1..Len(word) |-> IF i = 1 THEN ToUpper(word[i]) ELSE word[i]]
        /\ (word = W_fatContentFDA => split_out = <<"F","a","t"," ","c","o","n","t","e","n","t"," ","F","D","A">>)
        /\ (word = W_ABCDef => split_out = <<"A","B","C"," ","d","e","f">>)
        /\ (word = W_proteinContent => split_out = <<"P","r","o","t","e","i","n"," ","c","o","n","t","e","n","t">>)

(***************************************************************************)
(* C3 (amended): camel_case_splitter upper-cases the first character of    *)
(* its result and lower-cases every later one: "fatContentFDA" gives       *)
(* "Fat content fda", "ABCDef" gives "Abc def", "proteinContent" gives     *)
(* "Protein content".                                                      *)
(***************************************************************************)
C3_TailLowerCased ==
    pc = "split_done" =>
        /\ LetterCase(split_out) =
               [i \in 1..Len(word) |-> IF i = 1 THEN ToUpper(word[i]) ELSE ToLower(word[i])]
        /\ \A i \in 2..Len(split_out) : ~IsUpper(split_out[i])
        /\ (word = W_fatContentFDA => split_out = <<"F","a","t"," ","c","o","n","t","e","n","t"," ","f","d","a">>)
        /\ (word = W_ABCDef => split_out = <<"A","b","c"," ","d","e","f">>)
        /\ (word = W_proteinContent => split_out = <<"P","r","o","t","e","i","n"," ","c","o","n","t","e","n","t">>)

C3_Witness ==
    /\ pc = "split_done"
    /\ word = W_fatContentFDA
    /\ split_out = <<"F","a","t"," ","c","o","n","t","e","n","t"," ","f","d","a">>

(***************************************************************************)
(* C4 (as stated): when extraction fails, generate_markdown returns an     *)
(* empty document and an empty image filename and raises nothing.          *)
(***************************************************************************)
C4_SentinelOnFailure ==
    ExtractionFailed =>
        /\ raised_at # "start"
        /\ md_content = <<>>
        /\ image_filename = <<>>

(***************************************************************************)
(* C5 (as stated): in a run in which extraction fails, nothing is rendered *)
(* and no file is written.                                                 *)
(***************************************************************************)
C5_AbortOnFailure ==
    ExtractionFailed => (rendered = <<>> /\ disk = <<>>)

(***************************************************************************)
(* C6 (as stated): every exception raised during view or save is caught by *)
(* the command and logged; none escapes it.                                *)
(***************************************************************************)
C6_NothingEscapes ==
    exc # "none" =>
        /\ pc # "crashed"
        /\ log # <<>>
        /\ log[Len(log)].level = "error"

(***************************************************************************)
(* C7 (as stated): when the image fetch fails, a non-200 response          *)
(* included, persist returns no paths and the response body is not written *)
(* as the image file.                                                      *)
(***************************************************************************)
C7_FetchFailureFailsPersist ==
    /\ raised_at = "persist_fetch" => (returned = NoValue /\ disk = <<>>)
    /\ image_data = "error_body" =>
           /\ returned = NoValue
           /\ \A i \in 1..Len(disk) :
                  disk[i].kind = "image" => disk[i].data # "error_body"

(***************************************************************************)
(* C8 (as stated): for an image URL without ".", generate_markdown raises  *)
(* and returns no image filename.                                          *)
(***************************************************************************)
C8_NoDotRaises ==
    (page.image # None /\ ~HasDot(page.image)) => ~Generated

(***************************************************************************)
(* C9: the document file persist writes and the image filename             *)
(* generate_markdown returned have the same stem (the text before the last *)
(* "."), whatever the title, the name and the translate flag.              *)
(***************************************************************************)
C9_SharedStem ==
    \A i \in 1..Len(disk) :
        disk[i].kind = "doc" =>
            BeforeLastDot(FileName(disk[i].path)) = BeforeLastDot(image_filename)

C9_Witness ==
    /\ Len(disk) = 2
    /\ disk[2].kind = "doc"
    /\ name # None
    /\ translate
    /\ format_title(name) # format_title(page.title)
    /\ BeforeLastDot(image_filename) = format_title(name)

(***************************************************************************)
(* C10: persist fetches the image, writes the image file, then writes the  *)
(* document file: a written document file is preceded by the image file,   *)
(* a failed fetch or image write leaves no file, a failed document write   *)
(* leaves the image file.                                                  *)
(***************************************************************************)
C10_PersistOrder ==
    /\ \A i \in 1..Len(disk) :
           disk[i].kind = "doc" => \E j \in 1..(i - 1) : disk[j].kind = "image"
    /\ raised_at \in {"persist_fetch", "persist_write_image"} => disk = <<>>
    /\ raised_at = "persist_write_doc" => (Len(disk) = 1 /\ disk[1].kind = "image")

C10_Witness ==
    /\ raised_at = "persist_write_doc"
    /\ Len(disk) = 1
    /\ disk[1].kind = "image"

====
